---- MODULE Spec2Model ----
(***************************************************************************)
(* A model of the unified-diff parser of IntelliDiff                       *)
(* (src/src/utils/diffParser.ts, parseGitDiff).                            *)
(*                                                                         *)
(* The input text is held as the array `lines` that diffOutput.split('\n') *)
(* produces: a non-empty sequence of newline-free strings (the empty text  *)
(* splits into the single line "").  One ScanLine step is one iteration of *)
(* the for loop; Finish is the code after the loop.  Lines are TLA+        *)
(* strings and the prefix tests, substring calls and the two regular       *)
(* expressions are computed on their characters.                           *)
(***************************************************************************)
EXTENDS Integers, Sequences, FiniteSets, TLC

VARIABLES
    lines,          \* const lines = diffOutput.split('\n')
    i,              \* the for loop's index (0-based, as in the code)
    results,        \* const results: FileDiff[]
    currentFile,    \* Partial<FileDiff> | null : <<>> is null, <<f>> an object
    currentChunk,   \* Partial<DiffChunk> | null : <<>> is null, <<c>> an object
    pc,             \* "scan" in the loop, "done" after return, "threw" on a TypeError
    hdr,            \* the numbers a hunk header of the input was written from
    hunkBody,       \* the hunk body a generated diff was written from
    cmp,            \* the state of a GitService.compareRefs call
    gfd,            \* the state of a GitService.getFileDiff call
    repo,           \* the change between the two refs that git is asked about
    second,         \* the locals of a second parseGitDiff call
    view,           \* the state of the AnalysisViewProvider and of its calls
    server,         \* the state of the PythonService and of its calls
    explorer,       \* the state of the DiffViewProvider and of its loadDiffView calls
    ai              \* the state of the AIService and of its calls

vars == <<lines, i, results, currentFile, currentChunk, pc, hdr, hunkBody, cmp, gfd, repo, second, view, server, explorer, ai>>

\* ------------------------------------------------------------------ bounds

\* the longest input, in lines
MaxLines == 4

\* the largest number written into a generated hunk header
MaxNum == 10

\* ------------------------------------------------------- strings (JS String)

SetMin(S) == CHOOSE x \in S : \A y \in S : x <= y

SetMax(S) == CHOOSE x \in S : \A y \in S : x >= y

\* the characters a..b of s (1-based, inclusive), clamped to the string
Slice(s, a, b) ==
    LET lo == IF a < 1 THEN 1 ELSE a
        hi == IF b > Len(s) THEN Len(s) ELSE b
    IN  IF lo > hi THEN "" ELSE SubSeq(s, lo, hi)

CharAt(s, k) == Slice(s, k, k)

\* String.prototype.startsWith
startsWith(s, p) == Len(s) >= Len(p) /\ Slice(s, 1, Len(p)) = p

\* String.prototype.substring(n): from 0-based index n to the end
substring(s, n) == Slice(s, n + 1, Len(s))

\* the 1-based positions at which p occurs in s
Positions(s, p) ==
    {k \in 1..(Len(s) - Len(p) + 1) : Slice(s, k, k + Len(p) - 1) = p}

\* String.prototype.includes
includes(s, p) == Positions(s, p) # {}

IsDigit(c) == c \in {"0", "1", "2", "3", "4", "5", "6", "7", "8", "9"}

DigitVal(c) ==
    CASE c = "0" -> 0 [] c = "1" -> 1 [] c = "2" -> 2 [] c = "3" -> 3
      [] c = "4" -> 4 [] c = "5" -> 5 [] c = "6" -> 6 [] c = "7" -> 7
      [] c = "8" -> 8 [] c = "9" -> 9

\* the end of the longest run of digits of s that starts at k (k - 1: no digit)
DigitsEnd(s, k) ==
    SetMax({e \in (k - 1)..Len(s) : \A j \in k..e : IsDigit(CharAt(s, j))})

\* parseInt(v, 10) of a string of decimal digits
RECURSIVE parseInt(_)
parseInt(v) ==
    IF Len(v) = 1 THEN DigitVal(v)
    ELSE 10 * parseInt(Slice(v, 1, Len(v) - 1)) + DigitVal(CharAt(v, Len(v)))

\* ------------------------------------------------------ regular expressions

\* line.match(/@@ -(\d+)(?:,(\d+))? \+(\d+)(?:,(\d+))? @@/) tried with "@@ -" at
\* position k: <<>> when it fails, else <<the four groups>>, an optional group
\* that took no part being "" (undefined in the code, falsy like "").
\* A run of digits is followed by "," or " ", so \d+ never gives digits back.
chunkHeaderMatchAt(s, k) ==
    LET a1 == k + 4
        a2 == DigitsEnd(s, a1)
        hasOldLines == CharAt(s, a2 + 1) = "," /\ DigitsEnd(s, a2 + 2) >= a2 + 2
        b2 == IF hasOldLines THEN DigitsEnd(s, a2 + 2) ELSE a2
        c1 == b2 + 3
        c2 == DigitsEnd(s, c1)
        hasNewLines == CharAt(s, c2 + 1) = "," /\ DigitsEnd(s, c2 + 2) >= c2 + 2
        d2 == IF hasNewLines THEN DigitsEnd(s, c2 + 2) ELSE c2
    IN  IF /\ Slice(s, k, k + 3) = "@@ -"
           /\ a2 >= a1
           /\ Slice(s, b2 + 1, b2 + 2) = " +"
           /\ c2 >= c1
           /\ Slice(s, d2 + 1, d2 + 3) = " @@"
        THEN <<[oldStart |-> Slice(s, a1, a2),
                oldLines |-> IF hasOldLines THEN Slice(s, a2 + 2, b2) ELSE "",
                newStart |-> Slice(s, c1, c2),
                newLines |-> IF hasNewLines THEN Slice(s, c2 + 2, d2) ELSE ""]>>
        ELSE <<>>

\* the regular expression is not anchored: the leftmost position that matches
chunkHeaderMatch(s) ==
    LET ks == {k \in Positions(s, "@@ -") : chunkHeaderMatchAt(s, k) # <<>>}
    IN  IF ks = {} THEN <<>> ELSE chunkHeaderMatchAt(s, SetMin(ks))

\* binaryCheck.match(/Binary files a\/(.*) and b\/(.*) differ/): <<>> when it
\* fails, else <<the two groups>>.  Both groups are greedy: the first ends at
\* the last " and b/" that a " differ" still follows, the second at the last
\* " differ"; a match exists iff one exists at the leftmost "Binary files a/".
binaryFilesMatch(s) ==
    LET starts == Positions(s, "Binary files a/")
        g1 == SetMin(starts) + 15
        ands == {p \in Positions(s, " and b/") :
                    p >= g1 /\ \E q \in Positions(s, " differ") : q >= p + 7}
        p == SetMax(ands)
        q == SetMax({r \in Positions(s, " differ") : r >= p + 7})
    IN  IF starts = {} THEN <<>>
        ELSE IF ands = {} THEN <<>>
        ELSE <<[oldPath |-> Slice(s, g1, p - 1), newPath |-> Slice(s, p + 7, q - 1)]>>

\* ------------------------------------------------------------- the parser

Null == <<>>

\* the object literal of a new file (diffParser.ts 25-31)
NewFile ==
    [oldPath |-> "", newPath |-> "", status |-> "modified",
     isBinary |-> FALSE, chunks |-> <<>>]

\* the lines a recognised binary marker makes the scan skip: i += 2
BinarySkip == 2

\* the default of a count left out taken to be 0
OrDefaultZero(v) == IF v = "" THEN "0" ELSE v

\* v || '1' in match.map(v => parseInt(v || '1', 10))
OrDefault(v) == IF v = "" THEN "1" ELSE v

\* oldLines || 0, newLines || 0
OrZero(n) == IF n = 0 THEN 0 ELSE n

\* the chunk built from a matched header (diffParser.ts 78-86)
newChunk(m) ==
    [oldStart |-> parseInt(OrDefault(m.oldStart)),
     oldLines |-> OrZero(parseInt(OrDefault(m.oldLines))),
     newStart |-> parseInt(OrDefault(m.newStart)),
     newLines |-> OrZero(parseInt(OrDefault(m.newLines))),
     changes  |-> <<>>]

\* currentFile.chunks.push(currentChunk) when a chunk is open
pushChunk(file, chunk) ==
    IF chunk # Null
    THEN [file EXCEPT !.chunks = Append(file.chunks, chunk[1])]
    ELSE file

\* lines.slice(i, i + 3).find(l => l.includes('Binary files')): <<>> when no
\* line of the window has the words, else <<the first that has>>
binaryCheck(ls, idx) ==
    LET last == IF idx + 3 > Len(ls) THEN Len(ls) ELSE idx + 3
        hits == {k \in (idx + 1)..last : includes(ls[k], "Binary files")}
    IN  IF hits = {} THEN <<>> ELSE <<ls[SetMin(hits)]>>

\* the state of one call: the local variables of parseGitDiff
InitState ==
    [i |-> 0, results |-> <<>>, currentFile |-> Null, currentChunk |-> Null,
     pc |-> "scan"]

\* the four tests of the if / else-if chain, each as the code writes it
isFileHeader(line) == startsWith(line, "diff --git")

isOldPath(line, file) == startsWith(line, "--- a/") /\ file # Null

\* the test of the new-path header without its `&& currentFile`
isNewPathUnguarded(line, file) == startsWith(line, "+++ b/")

isNewPath(line, file) == startsWith(line, "+++ b/") /\ file # Null

isChunkHeader(line, file) == startsWith(line, "@@") /\ file # Null

isContent(chunk, file) == chunk # Null /\ file # Null /\ ~file[1].isBinary

\* diffParser.ts 18-47: save the previous file, start a new one, look for a
\* binary marker in the window lines[i .. i+2]
fileHeader(s, ls) ==
    LET saved == IF s.currentFile # Null
                 THEN Append(s.results, s.currentFile[1])
                 ELSE s.results
        found == binaryCheck(ls, s.i)
        match == binaryFilesMatch(found[1])
        binaryFile ==
            IF match # <<>>
            THEN [NewFile EXCEPT !.isBinary = TRUE,
                                 !.oldPath = match[1].oldPath,
                                 !.newPath = match[1].newPath]
            ELSE [NewFile EXCEPT !.isBinary = TRUE]
    IN  IF found # <<>>
        THEN [s EXCEPT !.results = saved, !.currentFile = <<binaryFile>>,
                       !.currentChunk = Null, !.i = s.i + BinarySkip + 1]
        ELSE [s EXCEPT !.results = saved, !.currentFile = <<NewFile>>,
                       !.currentChunk = Null, !.i = s.i + 1]

\* diffParser.ts 50-52; writing a property of null throws a TypeError
oldPathHeader(s, line) ==
    IF s.currentFile = Null THEN [s EXCEPT !.pc = "threw"]
    ELSE [s EXCEPT !.currentFile[1].oldPath = substring(line, 6), !.i = s.i + 1]

\* diffParser.ts 53-64
newPathHeader(s, line) ==
    IF s.currentFile = Null THEN [s EXCEPT !.pc = "threw"]
    ELSE LET f == [s.currentFile[1] EXCEPT !.newPath = substring(line, 6)]
             g == IF f.oldPath = "/dev/null"
                  THEN [f EXCEPT !.status = "added", !.oldPath = f.newPath]
                  ELSE IF f.newPath = "/dev/null"
                  THEN [f EXCEPT !.status = "deleted", !.newPath = f.oldPath]
                  ELSE f
         IN  [s EXCEPT !.currentFile = <<g>>, !.i = s.i + 1]

\* diffParser.ts 67-91
chunkHeader(s, line) ==
    IF s.currentFile = Null THEN [s EXCEPT !.pc = "threw"]
    ELSE LET match == chunkHeaderMatch(line)
         IN  [s EXCEPT !.currentFile = <<pushChunk(s.currentFile[1], s.currentChunk)>>,
                       !.currentChunk = IF match # <<>> THEN <<newChunk(match[1])>>
                                        ELSE Null,
                       !.i = s.i + 1]

\* diffParser.ts 94-118
content(s, line) ==
    LET add(type) ==
            [s EXCEPT !.currentChunk[1].changes =
                          Append(@, [type |-> type, content |-> substring(line, 1)]),
                      !.i = s.i + 1]
    IN  IF startsWith(line, "+") THEN add("add")
        ELSE IF startsWith(line, "-") THEN add("delete")
        ELSE IF startsWith(line, " ") THEN add("normal")
        ELSE [s EXCEPT !.i = s.i + 1]

\* an iteration that tries the content branch of an open hunk before the
\* path headers
loopBodyContentFirst(s, ls) ==
    LET line == ls[s.i + 1]
    IN  IF isFileHeader(line) THEN fileHeader(s, ls)
        ELSE IF /\ isContent(s.currentChunk, s.currentFile)
                /\ ~isChunkHeader(line, s.currentFile)
             THEN content(s, line)
        ELSE IF isOldPath(line, s.currentFile) THEN oldPathHeader(s, line)
        ELSE IF isNewPath(line, s.currentFile) THEN newPathHeader(s, line)
        ELSE IF isChunkHeader(line, s.currentFile) THEN chunkHeader(s, line)
        ELSE [s EXCEPT !.i = s.i + 1]

\* one iteration of the for loop (diffParser.ts 14-119) on lines[i]
loopBody(s, ls) ==
    LET line == ls[s.i + 1]
    IN  IF isFileHeader(line) THEN fileHeader(s, ls)
        ELSE IF isOldPath(line, s.currentFile) THEN oldPathHeader(s, line)
        ELSE IF isNewPath(line, s.currentFile) THEN newPathHeader(s, line)
        ELSE IF isChunkHeader(line, s.currentFile) THEN chunkHeader(s, line)
        ELSE IF isContent(s.currentChunk, s.currentFile) THEN content(s, line)
        ELSE [s EXCEPT !.i = s.i + 1]

\* the end of the call without its `if (currentFile)`: null is pushed when
\* no file is open
afterLoopUnguarded(s) ==
    IF s.currentFile # Null
    THEN [s EXCEPT !.results =
                       Append(s.results, pushChunk(s.currentFile[1], s.currentChunk)),
                   !.pc = "done"]
    ELSE [s EXCEPT !.results = Append(s.results, Null), !.pc = "done"]

\* diffParser.ts 121-130: add the last chunk and file, return results
afterLoop(s) ==
    IF s.currentFile # Null
    THEN [s EXCEPT !.results =
                       Append(s.results, pushChunk(s.currentFile[1], s.currentChunk)),
                   !.pc = "done"]
    ELSE [s EXCEPT !.pc = "done"]

\* the whole call on the split text ls
RECURSIVE runLoop(_, _)
runLoop(s, ls) ==
    IF s.pc = "scan" /\ s.i < Len(ls) THEN runLoop(loopBody(s, ls), ls) ELSE s

parseGitDiff(ls) ==
    LET s == runLoop(InitState, ls)
    IN  IF s.pc = "scan" THEN afterLoop(s).results ELSE <<>>

\* ------------------------------------------------------------- the inputs

\* the lines an input text is made of: one of each class the scan tells apart,
\* the two sentinel headers as a VCS writes them, and the empty line ("" alone
\* is the empty text)
LinePool ==
    {"diff --git a/x b/y",
     "--- a/x",
     "+++ b/y",
     "--- /dev/null",
     "+++ /dev/null",
     "@@ -1,2 +3 @@",
     "@@ -1 +1,2",
     "+a",
     "-b",
     " c",
     "Binary files a/x and b/y differ",
     "\\ No newline at end of file",
     ""}

Texts == UNION {[1..n -> LinePool] : n \in 1..MaxLines}

\* String(n) of a natural number
RECURSIVE FormatNat(_)
FormatNat(n) ==
    LET d == CASE n % 10 = 0 -> "0" [] n % 10 = 1 -> "1" [] n % 10 = 2 -> "2"
               [] n % 10 = 3 -> "3" [] n % 10 = 4 -> "4" [] n % 10 = 5 -> "5"
               [] n % 10 = 6 -> "6" [] n % 10 = 7 -> "7" [] n % 10 = 8 -> "8"
               [] n % 10 = 9 -> "9"
    IN  IF n < 10 THEN d ELSE FormatNat(n \div 10) \o d

\* the header line `@@ -a,b +c,d @@`, a count suffix left out when h says so
FormatHeader(h) ==
    "@@ -" \o FormatNat(h.oldStart)
           \o (IF h.hasOldLines THEN "," \o FormatNat(h.oldLines) ELSE "")
           \o " +" \o FormatNat(h.newStart)
           \o (IF h.hasNewLines THEN "," \o FormatNat(h.newLines) ELSE "")
           \o " @@" \o h.tail

Headers ==
    {h \in [oldStart : 0..MaxNum, oldLines : 0..MaxNum, hasOldLines : BOOLEAN,
            newStart : 0..MaxNum, newLines : 0..MaxNum, hasNewLines : BOOLEAN,
            tail : {"", " fn()"}] :
        /\ ~h.hasOldLines => h.oldLines = 0
        /\ ~h.hasNewLines => h.newLines = 0}

\* the header the pool's well-formed `@@` line is written from
PoolHeader ==
    [oldStart |-> 1, oldLines |-> 2, hasOldLines |-> TRUE,
     newStart |-> 3, newLines |-> 0, hasNewLines |-> FALSE, tail |-> ""]

\* ----------------------------------------------------------- the behaviour

Cur ==
    [i |-> i, results |-> results, currentFile |-> currentFile,
     currentChunk |-> currentChunk, pc |-> pc]

Start ==
    /\ i = InitState.i
    /\ results = InitState.results
    /\ currentFile = InitState.currentFile
    /\ currentChunk = InitState.currentChunk
    /\ pc = InitState.pc

Becomes(s) ==
    /\ i' = s.i
    /\ results' = s.results
    /\ currentFile' = s.currentFile
    /\ currentChunk' = s.currentChunk
    /\ pc' = s.pc

\* no GitService call is in progress
NotCalled == [pc |-> "idle"]

\* no repository is asked
NoRepo == [kind |-> "none"]

\* nothing but the call under study runs
NoOther ==
    /\ second = NotCalled /\ view = NotCalled /\ server = NotCalled
    /\ explorer = NotCalled /\ ai = NotCalled

NoService == cmp = NotCalled /\ gfd = NotCalled /\ repo = NoRepo /\ NoOther

\* parseGitDiff is called on any text of the pool's lines
Init ==
    /\ lines \in Texts
    /\ hdr = PoolHeader
    /\ hunkBody = <<>>
    /\ NoService
    /\ Start

\* parseGitDiff is called on one file section whose hunk header is written
\* from the numbers hdr
InitHeader ==
    /\ hdr \in Headers
    /\ lines = <<"diff --git a/x b/y", "--- a/x", "+++ b/y", FormatHeader(hdr), "+a">>
    /\ hunkBody = <<>>
    /\ NoService
    /\ Start

\* one iteration of the for loop
ScanLine ==
    /\ pc = "scan"
    /\ i < Len(lines)
    /\ Becomes(loopBody(Cur, lines))
    /\ UNCHANGED <<lines, hdr, hunkBody, cmp, gfd, repo, second, view, server, explorer, ai>>

\* the loop has ended: the code after it, and the return
Finish ==
    /\ pc = "scan"
    /\ i >= Len(lines)
    /\ Becomes(afterLoop(Cur))
    /\ UNCHANGED <<lines, hdr, hunkBody, cmp, gfd, repo, second, view, server, explorer, ai>>

Next == ScanLine \/ Finish

Spec == Init /\ [][Next]_vars

SpecHeader == InitHeader /\ [][Next]_vars

TypeOK ==
    /\ pc \in {"scan", "done", "threw"}
    /\ i \in 0..(Len(lines) + BinarySkip)
    /\ Len(currentFile) <= 1
    /\ Len(currentChunk) <= 1

\* ------------------------------------- what the input says, read off `lines`

\* the positions of the lines that begin `diff --git`
DiffLines == {k \in 1..Len(lines) : startsWith(lines[k], "diff --git")}

\* no line of the input holds the words of a binary marker
NoBinaryWords == \A k \in 1..Len(lines) : ~includes(lines[k], "Binary files")

\* the position of the j-th `diff --git` line
NthDiff(j) == CHOOSE k \in DiffLines : Cardinality({m \in DiffLines : m < k}) = j - 1

\* the last line of the j-th file section
SectionEnd(j) ==
    IF j < Cardinality(DiffLines) THEN NthDiff(j + 1) - 1 ELSE Len(lines)

IsWellFormedHeader(l) == startsWith(l, "@@") /\ chunkHeaderMatch(l) # <<>>

IsMalformedHeader(l) == startsWith(l, "@@") /\ chunkHeaderMatch(l) = <<>>

\* the header numbers of the well-formed `@@` lines among lines a..b, in order
HeadersWithin(a, b) ==
    LET hs == SelectSeq(SubSeq(lines, a, b), IsWellFormedHeader)
    IN  [n \in 1..Len(hs) |-> newChunk(chunkHeaderMatch(hs[n])[1])]

\* the header numbers of the hunks a File holds, in order
HeadersOf(file) ==
    [n \in 1..Len(file.chunks) |-> [file.chunks[n] EXCEPT !.changes = <<>>]]

IsChangeLine(l) == CharAt(l, 1) \in {"+", "-", " "}

\* the changes the lines after the header at position k spell, up to the next
\* `@@` line, `diff --git` line or the end of the input
ChangesAfter(k) ==
    LET stops == {m \in (k + 1)..Len(lines) :
                     startsWith(lines[m], "@@") \/ startsWith(lines[m], "diff --git")}
        last == IF stops = {} THEN Len(lines) ELSE SetMin(stops) - 1
        body == SelectSeq(SubSeq(lines, k + 1, last), IsChangeLine)
        kind(c) == IF c = "+" THEN "add" ELSE IF c = "-" THEN "delete" ELSE "normal"
    IN  [n \in 1..Len(body) |->
            [type |-> kind(CharAt(body[n], 1)), content |-> Slice(body[n], 2, Len(body[n]))]]

\* the positions of the well-formed `@@` lines, in order
WellFormedAt ==
    LET ks == {k \in 1..Len(lines) : IsWellFormedHeader(lines[k])}
    IN  [n \in 1..Cardinality(ks) |->
            CHOOSE k \in ks : Cardinality({m \in ks : m < k}) = n - 1]

\* the input text with line k taken out
Without(k) ==
    IF Len(lines) = 1 THEN <<"">>
    ELSE SubSeq(lines, 1, k - 1) \o SubSeq(lines, k + 1, Len(lines))

\* the file section line k lies in (0: before the first `diff --git`)
SectionOf(k) == Cardinality({d \in DiffLines : d < k})

\* ------------------------------------------------------------- the claims

\* C1: in an input of two or more `diff --git` sections (no binary marker, so
\* that File j is section j), every File holds exactly the hunks of the
\* well-formed `@@` headers of its own section, in order, the hunk open at the
\* next `diff --git` line and the one open at the end of the input included.
C1_HunksStayInTheirSection ==
    (pc = "done" /\ Cardinality(DiffLines) >= 2 /\ NoBinaryWords) =>
        /\ Len(results) = Cardinality(DiffLines)
        /\ \A j \in 1..Len(results) :
              HeadersOf(results[j]) = HeadersWithin(NthDiff(j), SectionEnd(j))

\* C2: parseGitDiff returns exactly one File per line that begins `diff --git`.
C2_OneFilePerDiffLine ==
    pc = "done" => Len(results) = Cardinality(DiffLines)

\* C3: in one file section (no binary marker), the changes of every hunk with a
\* well-formed header are exactly the lines after the header, up to the next
\* `@@` line or the end, that begin `+`, `-` or a space, in order, each without
\* its first character, whatever the rest of the line is.
C3_ChangesAreTheBodyLines ==
    (pc = "done" /\ DiffLines = {1} /\ NoBinaryWords) =>
        /\ Len(results) = 1
        /\ Len(results[1].chunks) = Len(WellFormedAt)
        /\ \A n \in 1..Len(WellFormedAt) :
              results[1].chunks[n].changes = ChangesAfter(WellFormedAt[n])

\* the input is one file section whose second and third lines are its only
\* path headers
OneSectionWithHeaders ==
    /\ DiffLines = {1}
    /\ Len(lines) >= 3
    /\ \A k \in 4..Len(lines) :
          ~startsWith(lines[k], "--- ") /\ ~startsWith(lines[k], "+++ ")

\* C4: one file section with the headers `--- /dev/null` and `+++ b/p` yields
\* exactly one File with status ADDED and oldPath = newPath = p.
C4_DevNullOldPathIsAdded ==
    (/\ pc = "done"
     /\ OneSectionWithHeaders
     /\ lines[2] = "--- /dev/null"
     /\ startsWith(lines[3], "+++ b/")) =>
        /\ Len(results) = 1
        /\ results[1].status = "added"
        /\ results[1].oldPath = substring(lines[3], 6)
        /\ results[1].newPath = substring(lines[3], 6)

\* C5: one file section with the headers `--- a/p` and `+++ /dev/null` yields
\* exactly one File with status DELETED and oldPath = newPath = p.
C5_DevNullNewPathIsDeleted ==
    (/\ pc = "done"
     /\ OneSectionWithHeaders
     /\ startsWith(lines[2], "--- a/")
     /\ lines[3] = "+++ /dev/null") =>
        /\ Len(results) = 1
        /\ results[1].status = "deleted"
        /\ results[1].oldPath = substring(lines[2], 6)
        /\ results[1].newPath = substring(lines[2], 6)

Paths == {"x", "y"}

\* C6: a file section with the line `Binary files a/o and b/n differ` within the
\* two lines after its `diff --git` line yields one File with isBinary = true,
\* oldPath = o, newPath = n and no hunks.
C6_BinaryMarkerYieldsBinaryFile ==
    \A o \in Paths, n \in Paths :
        (/\ pc = "done"
         /\ DiffLines = {1}
         /\ \E k \in {2, 3} :
               /\ k <= Len(lines)
               /\ lines[k] = "Binary files a/" \o o \o " and b/" \o n \o " differ") =>
            /\ Len(results) = 1
            /\ results[1].isBinary
            /\ results[1].oldPath = o
            /\ results[1].newPath = n
            /\ results[1].chunks = <<>>

\* C7: every File returned with isBinary = true has no hunks.
C7_BinaryFileHasNoHunks ==
    pc = "done" =>
        \A j \in 1..Len(results) : results[j].isBinary => results[j].chunks = <<>>

\* C8: the header `@@ -a,b +c,d @@` yields a hunk with oldStart = a,
\* oldLines = b, newStart = c, newLines = d, an explicit count of 0 staying 0 and
\* a count whose suffix is left out being 1.
C8_HeaderNumbers ==
    pc = "done" =>
        /\ Len(results) = 1
        /\ Len(results[1].chunks) = 1
        /\ results[1].chunks[1].oldStart = hdr.oldStart
        /\ results[1].chunks[1].oldLines = (IF hdr.hasOldLines THEN hdr.oldLines ELSE 1)
        /\ results[1].chunks[1].newStart = hdr.newStart
        /\ results[1].chunks[1].newLines = (IF hdr.hasNewLines THEN hdr.newLines ELSE 1)

\* C8's case: a two-digit start, an explicit count of 0 and a count left out
C8_Witness ==
    /\ pc = "done"
    /\ hdr.oldStart >= 10
    /\ hdr.hasOldLines /\ hdr.oldLines = 0
    /\ ~hdr.hasNewLines
    /\ Len(results) = 1 /\ Len(results[1].chunks) = 1

\* C9: a line beginning `@@` that does not match the header pattern raises no
\* error, and every other file section is returned exactly as it is returned
\* for the input without that line.
C9_MalformedHeaderIsLocal ==
    /\ pc # "threw"
    /\ pc = "done" =>
          \A k \in 1..Len(lines) :
              IsMalformedHeader(lines[k]) =>
                  LET other == parseGitDiff(Without(k))
                  IN  /\ Len(other) = Len(results)
                      /\ \A j \in 1..Len(results) :
                            j # SectionOf(k) => results[j] = other[j]

\* C9, the step on the malformed line itself: the open hunk is appended to the
\* current File, no hunk is open afterwards, and none opens or grows until the
\* next well-formed `@@` line.
C9_MalformedHeaderStep ==
    [][(pc = "scan" /\ i < Len(lines) /\ currentFile # Null
          /\ IsMalformedHeader(lines[i + 1]) /\ pc' = "scan" /\ i' = i + 1) =>
            /\ currentChunk' = Null
            /\ currentFile'[1].chunks =
                  (IF currentChunk # Null
                   THEN Append(currentFile[1].chunks, currentChunk[1])
                   ELSE currentFile[1].chunks)]_vars

\* C10: on every input the call never throws; while lines are left, the next
\* iteration of the loop moves the scan index forward (never past the end of
\* the input by more than the lookahead) and stays in the loop; once no line is
\* left, the code after the loop returns the Files.  So the call returns after
\* at most Len(lines) iterations.
C10_Terminates ==
    /\ pc \in {"scan", "done"}
    /\ i <= Len(lines) + BinarySkip
    /\ (pc = "scan" /\ i < Len(lines)) =>
          LET next == loopBody(Cur, lines)
          IN  next.i > i /\ next.pc = "scan"
    /\ (pc = "scan" /\ i >= Len(lines)) => afterLoop(Cur).pc = "done"

\* C10's case: a text that ends inside the lookahead of a binary marker has
\* been parsed
C10_Witness ==
    /\ pc = "done"
    /\ results # <<>>
    /\ i > Len(lines)

\* ------------------------------------------------ GitService.compareRefs
\* (src/src/services/gitService.ts 117-197, 457-469)

\* the longest name-status and numstat listing, in rows
MaxRows == 2

\* what a destructured array element that is not there holds
Undefined == "<undefined>"

\* not-a-number, the parseInt of a string that begins with no digit
NaN == -1

\* String.prototype.split(sep)
RECURSIVE split(_, _)
split(s, sep) ==
    LET ps == Positions(s, sep)
    IN  IF ps = {} THEN <<s>>
        ELSE <<Slice(s, 1, SetMin(ps) - 1)>>
                 \o split(Slice(s, SetMin(ps) + Len(sep), Len(s)), sep)

\* Array.prototype.filter(Boolean) on strings: the empty ones go
IsNonEmpty(l) == l # ""

filterBoolean(ls) == SelectSeq(ls, IsNonEmpty)

\* parts[n] of a destructuring (1-based here)
Field(parts, n) == IF n <= Len(parts) THEN parts[n] ELSE Undefined

\* parseInt(v, 10) of a numstat field: the digits v begins with
parseCount(v) ==
    IF DigitsEnd(v, 1) >= 1 THEN parseInt(Slice(v, 1, DigitsEnd(v, 1))) ELSE NaN

\* a status that keeps only the cases A and R of the switch
mapGitStatusNoDeleted(status) ==
    IF CharAt(status, 1) = "A" THEN "added"
    ELSE IF CharAt(status, 1) = "R" THEN "renamed"
    ELSE "modified"

\* GitService.mapGitStatusToFileStatus (gitService.ts 457-469)
mapGitStatusToFileStatus(status) ==
    IF CharAt(status, 1) = "A" THEN "added"
    ELSE IF CharAt(status, 1) = "D" THEN "deleted"
    ELSE IF CharAt(status, 1) = "R" THEN "renamed"
    ELSE "modified"

\* the DiffFile pushed for one name-status row (gitService.ts 138-160)
diffFileOfRow(line) ==
    LET parts == split(line, "\t")
        status == parts[1]
    IN  IF startsWith(status, "R")
        THEN [oldPath |-> Field(parts, 2), newPath |-> Field(parts, 3),
              status |-> "renamed", additions |-> 0, deletions |-> 0,
              isBinary |-> FALSE]
        ELSE [oldPath |-> Field(parts, 2), newPath |-> Field(parts, 2),
              status |-> mapGitStatusToFileStatus(status),
              additions |-> 0, deletions |-> 0, isBinary |-> FALSE]

\* the list built from the name-status output (gitService.ts 134-161)
filesOfNameStatus(out) ==
    LET rows == filterBoolean(out)
    IN  [n \in 1..Len(rows) |-> diffFileOfRow(rows[n])]

\* a find that falls back to the first file when no path matches
findFileOrFirst(files, filePath) ==
    LET hits == {j \in 1..Len(files) :
                    files[j].newPath = filePath \/ files[j].oldPath = filePath}
    IN  IF hits # {} THEN SetMin(hits) ELSE IF Len(files) > 0 THEN 1 ELSE 0

\* files.find(f => f.newPath === filePath || f.oldPath === filePath): the
\* index of the first file either of whose paths is filePath, 0 for undefined
findFile(files, filePath) ==
    LET hits == {j \in 1..Len(files) :
                    files[j].newPath = filePath \/ files[j].oldPath = filePath}
    IN  IF hits = {} THEN 0 ELSE SetMin(hits)

\* an update that parses the counts whatever the fields are
statUpdateAlwaysParse(file, additions, deletions) ==
    [file EXCEPT !.isBinary = (additions = "-" /\ deletions = "-") \/ @,
                 !.additions = parseCount(additions),
                 !.deletions = parseCount(deletions)]

\* the update of the matched file (gitService.ts 181-188)
statUpdate(file, additions, deletions) ==
    IF additions = "-" /\ deletions = "-"
    THEN [file EXCEPT !.isBinary = TRUE]
    ELSE [file EXCEPT !.additions = parseCount(additions),
                      !.deletions = parseCount(deletions)]

\* one iteration of the numstat loop (gitService.ts 172-190)
applyStatLine(files, statLine) ==
    LET parts == split(statLine, "\t")
        j == findFile(files, Field(parts, 3))
    IN  IF j = 0 THEN files
        ELSE [files EXCEPT ![j] = statUpdate(@, Field(parts, 1), Field(parts, 2))]

\* the whole numstat loop on the rows after the first k
RECURSIVE applyStatLines(_, _, _)
applyStatLines(files, statLines, k) ==
    IF k >= Len(statLines) THEN files
    ELSE applyStatLines(applyStatLine(files, statLines[k + 1]), statLines, k + 1)

\* the list compareRefs returns when both git calls succeed
compareRefs(nameOut, statOut) ==
    applyStatLines(filesOfNameStatus(nameOut), filterBoolean(statOut), 0)

\* the rows `git diff --name-status` can print ("" is the line after the last
\* newline), over the paths p and q
NameStatusRows ==
    {"A\tp", "M\tq", "D\tp", "T\tq", "R100\tp\tq", "R090\tq\tp", "C075\tp\tq", ""}

\* the rows `git diff --numstat` can print: z is a path of no entry, and
\* `p => q` is how a rename is listed
NumstatRows ==
    {"3\t0\tp", "10\t12\tq", "-\t-\tp", "-\t-\tq", "1\t1\tz", "0\t0\tp => q", ""}

Listings(rows) == UNION {[1..n -> rows] : n \in 1..MaxRows}

\* compareRefs is called; the repository answers the two listings
InitCompare ==
    /\ lines = <<"">>
    /\ hdr = PoolHeader
    /\ hunkBody = <<>>
    /\ Start
    /\ gfd = NotCalled
    /\ repo = NoRepo
    /\ NoOther
    /\ \E nameOut \in Listings(NameStatusRows), statOut \in Listings(NumstatRows) :
          cmp = [pc |-> "nameStatus", nameOut |-> nameOut, statOut |-> statOut,
                 files |-> <<>>, statLines |-> <<>>, k |-> 0, failed |-> {}]

parserVars == <<lines, i, results, currentFile, currentChunk, pc, hdr, hunkBody>>

\* await this.git.diff(['--name-status', ...]) settles (gitService.ts 127-161)
CmpNameStatus ==
    /\ cmp.pc = "nameStatus"
    /\ \/ cmp' = [cmp EXCEPT !.files = filesOfNameStatus(cmp.nameOut),
                             !.pc = "numstat"]
       \/ cmp' = [cmp EXCEPT !.failed = @ \cup {"name-status"}, !.pc = "failed"]
    /\ UNCHANGED <<parserVars, gfd, repo, second, view, server, explorer, ai>>

\* await this.git.diff(['--numstat', ...]) settles (gitService.ts 164-170)
CmpNumstat ==
    /\ cmp.pc = "numstat"
    /\ \/ cmp' = [cmp EXCEPT !.statLines = filterBoolean(cmp.statOut), !.k = 0,
                             !.pc = "statLoop"]
       \/ cmp' = [cmp EXCEPT !.failed = @ \cup {"numstat"}, !.pc = "failed"]
    /\ UNCHANGED <<parserVars, gfd, repo, second, view, server, explorer, ai>>

\* one iteration of for (const statLine of statLines) (gitService.ts 172-190)
CmpStatRow ==
    /\ cmp.pc = "statLoop"
    /\ cmp.k < Len(cmp.statLines)
    /\ cmp' = [cmp EXCEPT !.files = applyStatLine(@, cmp.statLines[cmp.k + 1]),
                          !.k = @ + 1]
    /\ UNCHANGED <<parserVars, gfd, repo, second, view, server, explorer, ai>>

\* return files (gitService.ts 192)
CmpReturn ==
    /\ cmp.pc = "statLoop"
    /\ cmp.k >= Len(cmp.statLines)
    /\ cmp' = [cmp EXCEPT !.pc = "done"]
    /\ UNCHANGED <<parserVars, gfd, repo, second, view, server, explorer, ai>>

NextCompare == CmpNameStatus \/ CmpNumstat \/ CmpStatRow \/ CmpReturn

SpecCompare == InitCompare /\ [][NextCompare]_vars

\* ------------------------------------------------ compareRefs: what is claimed

\* the fields of a listing row, read off the positions of its tabs
RowField(row, n) ==
    LET tabs == Positions(row, "\t")
        from == IF n = 1 THEN 1
                ELSE SetMax({t \in tabs : Cardinality({u \in tabs : u <= t}) = n - 1}) + 1
        upto == IF Cardinality(tabs) >= n
                THEN SetMin({t \in tabs : Cardinality({u \in tabs : u <= t}) = n}) - 1
                ELSE Len(row)
    IN  Slice(row, from, upto)

\* the rows of a listing that are not empty, in order
RECURSIVE NonEmptyRows(_)
NonEmptyRows(out) ==
    IF out = <<>> THEN <<>>
    ELSE IF Len(Head(out)) = 0 THEN NonEmptyRows(Tail(out))
    ELSE <<Head(out)>> \o NonEmptyRows(Tail(out))

\* what the status letter of a row stands for
StatusOfLetter(row) ==
    CASE Slice(row, 1, 1) = "A" -> "added"
      [] Slice(row, 1, 1) = "D" -> "deleted"
      [] Slice(row, 1, 1) = "R" -> "renamed"
      [] OTHER -> "modified"

FileMatchesRow(file, row) ==
    /\ file.status = StatusOfLetter(row)
    /\ IF Slice(row, 1, 1) = "R"
       THEN file.oldPath = RowField(row, 2) /\ file.newPath = RowField(row, 3)
       ELSE file.oldPath = RowField(row, 2) /\ file.newPath = file.oldPath

\* C13: the list compareRefs returns has one File for each non-empty
\* name-status row, in the order of the rows; the File of a row is ADDED for
\* the letter A, DELETED for D, RENAMED for a status that begins with R (its
\* oldPath and newPath the first and second path of the row) and MODIFIED for
\* any other letter (its oldPath and newPath both the path of the row).
C13_OneFilePerNameStatusRow ==
    cmp.pc = "done" =>
        LET rows == NonEmptyRows(cmp.nameOut)
        IN  /\ Len(cmp.files) = Len(rows)
            /\ \A n \in 1..Len(rows) : FileMatchesRow(cmp.files[n], rows[n])

\* a returned list of a rename followed by a deletion
C13_Witness ==
    /\ cmp.pc = "done"
    /\ cmp.nameOut = <<"R090\tq\tp", "D\tp">>
    /\ Len(cmp.files) = 2
    /\ cmp.files[1].status = "renamed" /\ cmp.files[1].oldPath = "q"
    /\ cmp.files[2].status = "deleted" /\ cmp.files[2].newPath = "p"

\* the numstat row the loop is about to apply
StatRowAt(c) == c.statLines[c.k + 1]

\* the files an iteration of the numstat loop has written to
Touched(before, after) == {j \in 1..Len(before) : after[j] # before[j]}

\* C12: a numstat row with path p is applied to a file whose newPath is p
\* when the list has one, and to a file whose oldPath is p only when no file
\* has newPath p, whatever the order of the name-status rows.
C12_NewPathBeforeOldPath ==
    [][(cmp.pc = "statLoop" /\ cmp'.pc = "statLoop" /\ cmp'.k = cmp.k + 1) =>
        LET p == RowField(StatRowAt(cmp), 3)
            byNew == {j \in 1..Len(cmp.files) : cmp.files[j].newPath = p}
            byOld == {j \in 1..Len(cmp.files) : cmp.files[j].oldPath = p}
        IN  Touched(cmp.files, cmp'.files) \subseteq
                (IF byNew # {} THEN byNew ELSE byOld)]_vars

\* C14: a numstat row whose two counts are both `-` makes the matched File
\* binary and leaves its additions and deletions as they were; a row with
\* numbers stores the numbers and leaves isBinary as it was.
C14_BinaryRowLeavesCounts ==
    [][(cmp.pc = "statLoop" /\ cmp'.pc = "statLoop" /\ cmp'.k = cmp.k + 1) =>
        LET row == StatRowAt(cmp)
            j == findFile(cmp.files, RowField(row, 3))
        IN  j # 0 =>
              IF RowField(row, 1) = "-" /\ RowField(row, 2) = "-"
              THEN /\ cmp'.files[j].isBinary
                   /\ cmp'.files[j].additions = cmp.files[j].additions
                   /\ cmp'.files[j].deletions = cmp.files[j].deletions
              ELSE /\ FormatNat(cmp'.files[j].additions) = RowField(row, 1)
                   /\ FormatNat(cmp'.files[j].deletions) = RowField(row, 2)
                   /\ cmp'.files[j].isBinary = cmp.files[j].isBinary]_vars

\* a returned list whose first file a `-` row made binary, counts still 0,
\* and whose second file has the counts of its numeric row
C14_Witness ==
    /\ cmp.pc = "done"
    /\ cmp.statOut = <<"-\t-\tp", "10\t12\tq">>
    /\ Len(cmp.files) = 2
    /\ cmp.files[1].isBinary /\ cmp.files[1].additions = 0
    /\ cmp.files[1].deletions = 0
    /\ ~cmp.files[2].isBinary /\ cmp.files[2].additions = 10
    /\ cmp.files[2].deletions = 12

\* the rows of a numstat listing whose path is the path of no file
Unmatched(files, out) ==
    {m \in 1..Len(out) :
        /\ out[m] # ""
        /\ \A j \in 1..Len(files) :
              /\ files[j].newPath # RowField(out[m], 3)
              /\ files[j].oldPath # RowField(out[m], 3)}

\* a listing without its row m
WithoutRow(out, m) == SubSeq(out, 1, m - 1) \o SubSeq(out, m + 1, Len(out))

\* C20: a numstat row whose path is neither the newPath nor the oldPath of a
\* name-status entry is passed over: compareRefs runs on to its return, and
\* the list it returns is the list it returns for the listing without the row.
C20_UnmatchedRowIgnored ==
    /\ (cmp.pc = "statLoop" /\ cmp.k < Len(cmp.statLines)
          /\ findFile(cmp.files, RowField(StatRowAt(cmp), 3)) = 0)
        => applyStatLine(cmp.files, StatRowAt(cmp)) = cmp.files
    /\ cmp.pc = "done" =>
        \A m \in Unmatched(cmp.files, cmp.statOut) :
            cmp.files = compareRefs(cmp.nameOut, WithoutRow(cmp.statOut, m))

\* a returned list that a row for the unlisted path z went past
C20_Witness ==
    /\ cmp.pc = "done"
    /\ cmp.nameOut = <<"A\tp", "M\tq">>
    /\ cmp.statOut = <<"1\t1\tz", "10\t12\tq">>
    /\ cmp.files[1].additions = 0
    /\ cmp.files[2].additions = 10

\* ------------------------------------------------ GitService.getFileDiff
\* (src/src/services/gitService.ts 202-260, 340-452)

\* The repository: one path y changed between the two refs. kind is what
\* happened to it (M modified, A added, D deleted, R renamed from x, U nothing),
\* binary whether its content is binary, limited whether a diff limited to
\* the path y shows a rename as the addition of y.
Repos ==
    {w \in [kind : {"M", "A", "D", "R", "U"}, binary : BOOLEAN, limited : BOOLEAN] :
        /\ w.limited => w.kind = "R"
        /\ w.binary => w.kind # "U"}

\* the change as a diff limited to the path y shows it
LimitedKind(w) == IF w.kind = "R" /\ w.limited THEN "A" ELSE w.kind

CountsOf(kind) ==
    CASE kind = "A" -> "1\t0\t"
      [] kind = "D" -> "0\t1\t"
      [] OTHER -> "2\t1\t"

\* the output of `git diff --name-status base compare`, split at "\n"
gitNameStatus(w) ==
    CASE w.kind = "U" -> <<"">>
      [] w.kind = "R" -> <<"R090\tx\ty", "">>
      [] OTHER -> <<w.kind \o "\ty", "">>

\* the output of `git diff --numstat base compare`, split at "\n"
gitNumstat(w) ==
    CASE w.kind = "U" -> <<"">>
      [] OTHER ->
          <<(IF w.binary THEN "-\t-\t" ELSE CountsOf(w.kind))
                \o (IF w.kind = "R" THEN "x => y" ELSE "y"), "">>

\* the output of `git diff --name-status base compare -- y`, split at "\n"
gitNameStatusOfPath(w) ==
    gitNameStatus([w EXCEPT !.kind = LimitedKind(w)])

\* the output of `git diff --numstat base compare -- y`, split at "\n"
gitNumstatOfPath(w) ==
    gitNumstat([w EXCEPT !.kind = LimitedKind(w)])

\* the output of `git diff -U10000 base compare -- y`, split at "\n"
gitDiffOfPath(w) ==
    LET kind == LimitedKind(w)
        old == IF kind = "R" THEN "x" ELSE "y"
        a == IF kind = "A" THEN "/dev/null" ELSE "a/" \o old
        b == IF kind = "D" THEN "/dev/null" ELSE "b/y"
        extended ==
            CASE kind = "A" -> <<"new file mode 100644", "index 0000000..2222222">>
              [] kind = "D" -> <<"deleted file mode 100644", "index 1111111..0000000">>
              [] kind = "R" -> <<"similarity index 90%", "rename from x", "rename to y",
                                 "index 1111111..2222222 100644">>
              [] OTHER -> <<"index 1111111..2222222 100644">>
        hunk ==
            CASE kind = "A" -> <<"@@ -0,0 +1 @@", "+a">>
              [] kind = "D" -> <<"@@ -1 +0,0 @@", "-b">>
              [] OTHER -> <<"@@ -1,2 +1,3 @@", " c", "-b", "+a", "+a">>
    IN  IF kind = "U" THEN <<"">>
        ELSE <<"diff --git a/" \o old \o " b/y">> \o extended
             \o (IF w.binary
                 THEN <<"Binary files " \o a \o " and " \o b \o " differ">>
                 ELSE <<"--- " \o a, "+++ " \o b>> \o hunk)
             \o <<"">>

\* whether the path y is a file at the base ref, and at the compare ref
ExistsAtBase(w) == w.kind \in {"M", "D", "U"}

ExistsAtCompare(w) == w.kind # "D"

\* GitReferenceType of a ref whose content getFileContent reads
RefTypes == {"commit", "workingTree"}

\* GitService.isFileBinary on the numstat output (gitService.ts 402-412)
isFileBinary(out) ==
    \E n \in 1..Len(filterBoolean(out)) :
        LET parts == split(filterBoolean(out)[n], "\t")
        IN  Field(parts, 1) = "-" /\ Field(parts, 2) = "-"

\* GitService.getFileStatus on the name-status output (gitService.ts 440-447)
getFileStatus(out) ==
    IF Len(filterBoolean(out)) = 0 THEN "modified"
    ELSE mapGitStatusToFileStatus(split(filterBoolean(out)[1], "\t")[1])

\* the rest of the session is as it was
serviceFrame == UNCHANGED <<parserVars, cmp, repo, second, view, server, explorer, ai>>

\* getFileDiff(baseRef, compareRef, filePath) is called for the path of the
\* list compareRefs returned (gitService.ts 202-214)
GfdCall ==
    /\ cmp.pc = "done"
    /\ gfd.pc = "idle"
    /\ \E b \in RefTypes, c \in RefTypes :
          gfd' = [pc |-> "isFileBinary", baseRef |-> b, compareRef |-> c,
                  filePath |-> "y", fileDiff |-> <<>>, oldContent |-> Undefined,
                  result |-> <<>>, failed |-> {}]
    /\ serviceFrame

\* await this.isFileBinary(...): a failure of the numstat call is caught
\* inside and answered false (gitService.ts 216, 384-417)
GfdIsFileBinary ==
    /\ gfd.pc = "isFileBinary"
    /\ \/ gfd' = [gfd EXCEPT !.pc = IF isFileBinary(gitNumstatOfPath(repo))
                                    THEN "getFileStatus" ELSE "diff"]
       \/ gfd' = [gfd EXCEPT !.failed = @ \cup {"numstat"}, !.pc = "diff"]
    /\ serviceFrame

\* the return for a binary file, with await this.getFileStatus(...): a failure
\* of the name-status call is caught inside and answered MODIFIED
\* (gitService.ts 218-227, 422-452)
GfdGetFileStatus ==
    /\ gfd.pc = "getFileStatus"
    /\ \E status \in {getFileStatus(gitNameStatusOfPath(repo)), "failed"} :
          gfd' = [gfd EXCEPT
                    !.result = <<[oldPath |-> gfd.filePath, newPath |-> gfd.filePath,
                                  status |-> IF status = "failed" THEN "modified"
                                             ELSE status,
                                  isBinary |-> TRUE, chunks |-> <<>>]>>,
                    !.failed = IF status = "failed" THEN @ \cup {"name-status"} ELSE @,
                    !.pc = "returned"]
    /\ serviceFrame

\* await this.git.diff(['-U10000', ...]) and parseGitDiff on its output; no
\* parsed file, or a failure of the call, throws (gitService.ts 230-246)
GfdDiff ==
    /\ gfd.pc = "diff"
    /\ \/ LET parsedDiff == parseGitDiff(gitDiffOfPath(repo))
          IN  IF Len(parsedDiff) = 0
              THEN gfd' = [gfd EXCEPT !.pc = "failed"]
              ELSE gfd' = [gfd EXCEPT !.fileDiff = <<parsedDiff[1]>>,
                                      !.pc = "oldContent"]
       \/ gfd' = [gfd EXCEPT !.failed = @ \cup {"diff"}, !.pc = "failed"]
    /\ serviceFrame

\* what getFileContent answers: the text, or undefined when the path is no
\* file at the ref (gitService.ts 340-379)
contentOf(exists, text) == IF exists THEN text ELSE Undefined

\* the collaborator getFileContent reads from (gitService.ts 349, 368)
contentCall(refType) == IF refType = "workingTree" THEN "readFile" ELSE "show"

\* await this.getFileContent(baseRef, filePath): a failure of the read is
\* caught inside and answered undefined (gitService.ts 248, 340-379)
GfdOldContent ==
    /\ gfd.pc = "oldContent"
    /\ \/ gfd' = [gfd EXCEPT !.oldContent = contentOf(ExistsAtBase(repo), "old text"),
                             !.pc = "newContent"]
       \/ gfd' = [gfd EXCEPT !.oldContent = Undefined,
                             !.failed = @ \cup {contentCall(gfd.baseRef)},
                             !.pc = "newContent"]
    /\ serviceFrame

\* a returned object that takes the hunks anew
withContentsNoChunks(fileDiff, oldContent, newContent) ==
    [oldPath |-> fileDiff.oldPath, newPath |-> fileDiff.newPath,
     status |-> fileDiff.status, isBinary |-> fileDiff.isBinary,
     chunks |-> <<>>, oldContent |-> oldContent, newContent |-> newContent]

\* the returned object {...fileDiff, oldContent, newContent}
\* (gitService.ts 251-255)
withContents(fileDiff, oldContent, newContent) ==
    [oldPath |-> fileDiff.oldPath, newPath |-> fileDiff.newPath,
     status |-> fileDiff.status, isBinary |-> fileDiff.isBinary,
     chunks |-> fileDiff.chunks, oldContent |-> oldContent,
     newContent |-> newContent]

\* await this.getFileContent(compareRef, filePath) and the return of
\* {...fileDiff, oldContent, newContent} (gitService.ts 249-255)
GfdNewContent ==
    /\ gfd.pc = "newContent"
    /\ \E failure \in BOOLEAN :
          gfd' = [gfd EXCEPT
                    !.result =
                        <<withContents(gfd.fileDiff[1], gfd.oldContent,
                             IF failure THEN Undefined
                             ELSE contentOf(ExistsAtCompare(repo), "new text"))>>,
                    !.failed = IF failure THEN @ \cup {contentCall(gfd.compareRef)}
                               ELSE @,
                    !.pc = "returned"]
    /\ serviceFrame

\* compareRefs lists the change, then getFileDiff is asked for the path
InitFileDiff ==
    /\ lines = <<"">>
    /\ hdr = PoolHeader
    /\ hunkBody = <<>>
    /\ Start
    /\ gfd = NotCalled
    /\ NoOther
    /\ repo \in Repos
    /\ cmp = [pc |-> "nameStatus", nameOut |-> gitNameStatus(repo),
              statOut |-> gitNumstat(repo), files |-> <<>>, statLines |-> <<>>,
              k |-> 0, failed |-> {}]

NextFileDiff ==
    \/ CmpNameStatus \/ CmpNumstat \/ CmpStatRow \/ CmpReturn
    \/ GfdCall \/ GfdIsFileBinary \/ GfdGetFileStatus \/ GfdDiff
    \/ GfdOldContent \/ GfdNewContent

SpecFileDiff == InitFileDiff /\ [][NextFileDiff]_vars

\* the entries of the list compareRefs returned for the path getFileDiff
\* was asked about
EntriesOfPath ==
    {j \in 1..Len(cmp.files) : cmp.files[j].newPath = gfd.filePath}

\* C11: when the path has a File parsed from the diff text and an entry in
\* the list of compareRefs, the File getFileDiff delivers has the status and
\* the isBinary of the entry, not the parser's: a row R<score> old new gives
\* RENAMED although the parser left MODIFIED.
C11_ComparatorStatusWins ==
    (gfd.pc = "returned" /\ gfd.fileDiff # <<>>) =>
        \A j \in EntriesOfPath :
            /\ gfd.result[1].status = cmp.files[j].status
            /\ gfd.result[1].isBinary = cmp.files[j].isBinary

\* C15: when a call of the VCS runner or of the content reader fails during
\* compareRefs or getFileDiff (name-status, numstat, unified diff, file
\* content), the operation fails: no list and no File is returned by a run
\* in which a call failed.
C15_FailuresReachTheCaller ==
    /\ cmp.pc = "done" => cmp.failed = {}
    /\ gfd.pc = "returned" => gfd.failed = {}

\* ------------------------------------------------ one hunk written from its body

\* the longest hunk body, in lines
MaxBody == 3

\* the texts a line of a file can have: `-- a/x` deleted is written `--- a/x`,
\* `++ b/y` added is written `+++ b/y`
BodyTexts == {"a", "", "-- a/x", "++ b/y"}

\* a hunk body: each line added, deleted or context; a diff has a change
HunkBodies ==
    {b \in UNION {[1..n -> [kind : {"+", "-", " "}, text : BodyTexts]] : n \in 1..MaxBody} :
        \E n \in 1..Len(b) : b[n].kind # " "}

CountKind(b, kinds) == Cardinality({n \in 1..Len(b) : b[n].kind \in kinds})

\* the numbers git writes in the header of a hunk with the body b that
\* begins at the first line of the file
HeaderOf(b) ==
    LET oldLines == CountKind(b, {"-", " "})
        newLines == CountKind(b, {"+", " "})
    IN  [oldStart |-> IF oldLines = 0 THEN 0 ELSE 1, oldLines |-> oldLines,
         hasOldLines |-> oldLines # 1,
         newStart |-> IF newLines = 0 THEN 0 ELSE 1, newLines |-> newLines,
         hasNewLines |-> newLines # 1, tail |-> ""]

\* the body as git writes it, a line's kind before its text
RawBody(b) == [n \in 1..Len(b) |-> b[n].kind \o b[n].text]

\* parseGitDiff is called on the diff, with the whole file as context, of a
\* file whose lines have the texts of BodyTexts
InitHunk ==
    /\ hunkBody \in HunkBodies
    /\ hdr = HeaderOf(hunkBody)
    /\ lines = <<"diff --git a/x b/y", "--- a/x", "+++ b/y", FormatHeader(hdr)>>
                   \o RawBody(hunkBody) \o <<"">>
    /\ NoService
    /\ Start

SpecHunk == InitHunk /\ [][Next]_vars

\* the changes of a hunk that have one of the types
ChangesOfType(chunk, types) ==
    SelectSeq(chunk.changes, LAMBDA c : c.type \in types)

\* C16: for a diff of one section and one hunk whose header counts agree
\* with its body, whatever the text of the body lines, the parsed hunk has
\* newLines minus its CONTEXT changes ADDED changes and oldLines minus its
\* CONTEXT changes DELETED changes.
C16_CountsMatchChanges ==
    pc = "done" =>
        /\ Len(results) = 1
        /\ Len(results[1].chunks) = 1
        /\ LET chunk == results[1].chunks[1]
               context == Len(ChangesOfType(chunk, {"normal"}))
           IN  /\ Len(ChangesOfType(chunk, {"add"})) = chunk.newLines - context
               /\ Len(ChangesOfType(chunk, {"delete"})) = chunk.oldLines - context

\* the lines of the new file: the texts of the body's context and added lines
NewFileLines(b) ==
    LET kept == SelectSeq(b, LAMBDA l : l.kind # "-")
    IN  [n \in 1..Len(kept) |-> kept[n].text]

\* the texts of the CONTEXT and ADDED changes of a File's hunks, in order
RECURSIVE ContextAndAdded(_)
ContextAndAdded(chunks) ==
    IF chunks = <<>> THEN <<>>
    ELSE LET kept == ChangesOfType(Head(chunks), {"normal", "add"})
         IN  [n \in 1..Len(kept) |-> kept[n].content]
                 \o ContextAndAdded(Tail(chunks))

\* C17: for the diff of one file written with the whole file as context, the
\* texts of the CONTEXT and ADDED changes of the parsed File's hunks, in
\* order, are the lines of the new file, whatever the text of each line.
C17_RoundTrip ==
    pc = "done" =>
        /\ Len(results) = 1
        /\ ContextAndAdded(results[1].chunks) = NewFileLines(hunkBody)

\* ------------------------------------------------ one section written from its paths

\* the most lines that follow the path headers of the section
MaxRest == 2

\* the paths of a file: a file can be named `Binary files.md`
PathPool == {"x", "y", "Binary files.md"}

\* the lines that can follow the path headers of a section
RestPool == {"--- a/z", "+++ b/z", "@@ -1 +1 @@", "+a", ""}

DiffLineOf(o, n) == "diff --git a/" \o o \o " b/" \o n

\* the section of a change of o into n that has no hunk
PlainSection(o, n) == <<DiffLineOf(o, n), "--- a/" \o o, "+++ b/" \o n>>

\* parseGitDiff is called on one section: a `diff --git` line for two paths,
\* an old-path and a new-path header each naming the path, a/ or b/ before
\* /dev/null, or /dev/null as git writes it, and up to MaxRest more lines
InitPaths ==
    /\ \E o \in PathPool, n \in PathPool :
       \E old \in {"--- a/" \o o, "--- a//dev/null", "--- /dev/null"},
          new \in {"+++ b/" \o n, "+++ b//dev/null", "+++ /dev/null"},
          rest \in UNION {[1..m -> RestPool] : m \in 0..MaxRest} :
            lines = <<DiffLineOf(o, n), old, new>> \o rest
    /\ hdr = PoolHeader
    /\ hunkBody = <<>>
    /\ NoService
    /\ Start

SpecPaths == InitPaths /\ [][Next]_vars

\* C18: on every input, a File that parseGitDiff returns with the status
\* ADDED or DELETED has oldPath = newPath, whatever lines follow the path
\* headers in its section.
C18_AddedDeletedOnePath ==
    pc = "done" =>
        \A n \in 1..Len(results) :
            results[n].status \in {"added", "deleted"} =>
                results[n].oldPath = results[n].newPath

\* C19: for any two distinct paths o and n, the section of a `diff --git`
\* line, `--- a/o` and `+++ b/n` with no `@@` line yields one File with
\* oldPath o, newPath n, the status MODIFIED and no hunks.
C19_PlainSectionIsModified ==
    \A o \in PathPool, n \in PathPool :
        (pc = "done" /\ o # n /\ lines = PlainSection(o, n)) =>
            /\ Len(results) = 1
            /\ results[1].oldPath = o
            /\ results[1].newPath = n
            /\ results[1].status = "modified"
            /\ results[1].chunks = <<>>

\* ------------------------------------------------ two parseGitDiff calls

\* the longest text of the two calls, in lines
MaxTwice == 3

TwiceLines ==
    {"diff --git a/x b/y", "--- a/x", "@@ -1,2 +3 @@", "+a",
     "Binary files a/x and b/y differ"}

TwiceTexts == UNION {[1..n -> TwiceLines] : n \in 1..MaxTwice}

\* locals that keep the results of another call
sharedLocals(other) == [InitState EXCEPT !.results = other.results]

\* the locals of a call at its entry: results, currentFile and currentChunk
\* are declared in the function body (diffParser.ts 7-9), so they are new
\* whatever another call holds
entryLocals(other) == InitState

\* a first parseGitDiff call has begun on a text
InitTwice ==
    /\ lines \in TwiceTexts
    /\ hdr = PoolHeader
    /\ hunkBody = <<>>
    /\ cmp = NotCalled /\ gfd = NotCalled /\ repo = NoRepo
    /\ NoOther
    /\ Start

firstCallFrame ==
    UNCHANGED <<lines, i, results, currentFile, currentChunk, pc, hdr, hunkBody,
                cmp, gfd, repo, view, server, explorer, ai>>

\* parseGitDiff is called again, on the same text or on another
ParseAgain ==
    /\ second = NotCalled
    /\ \E text \in {lines, <<"diff --git a/x b/y", "+a">>} :
          second' = [lines |-> text, s |-> entryLocals(Cur)]
    /\ firstCallFrame

\* one iteration of the for loop of the second call
ScanLineAgain ==
    /\ second # NotCalled
    /\ second.s.pc = "scan"
    /\ second.s.i < Len(second.lines)
    /\ second' = [second EXCEPT !.s = loopBody(@, second.lines)]
    /\ firstCallFrame

\* the code after the loop of the second call, and its return
FinishAgain ==
    /\ second # NotCalled
    /\ second.s.pc = "scan"
    /\ second.s.i >= Len(second.lines)
    /\ second' = [second EXCEPT !.s = afterLoop(@)]
    /\ firstCallFrame

NextTwice == ScanLine \/ Finish \/ ParseAgain \/ ScanLineAgain \/ FinishAgain

SpecTwice == InitTwice /\ [][NextTwice]_vars

C22_HunksUntouched ==
    (gfd.pc = "returned" /\ gfd.fileDiff # <<>>) =>
        /\ gfd.fileDiff[1] = parseGitDiff(gitDiffOfPath(repo))[1]
        /\ gfd.result[1].chunks = parseGitDiff(gitDiffOfPath(repo))[1].chunks

\* the File of a modified text file, returned with the one hunk of its diff
C22_Witness ==
    /\ gfd.pc = "returned"
    /\ gfd.fileDiff # <<>>
    /\ repo.kind = "M"
    /\ Len(gfd.result[1].chunks) = 1
    /\ Len(gfd.result[1].chunks[1].changes) = 4
    /\ gfd.result[1].chunks[1].newLines = 3

\* ------------------------------------------------ the binary lookahead

\* the places (1-based) of the lines with the words of the binary marker
\* among the two lines that follow the line at place k
MarkersAfter(k) ==
    {m \in {k + 1, k + 2} : m <= Len(lines) /\ includes(lines[m], "Binary files")}

\* C23: when a binary marker is recognised for a file, the lines consumed
\* are those from the `diff --git` line to the marker line; the scan goes on
\* at the line right after the marker, so that line, a `diff --git` line
\* included, is processed as any other. (Stated for a marker that has a line
\* after it; i counts from 0, so the line after place m is the line i = m.)
C23_ResumeAfterMarker ==
    [][(pc = "scan" /\ i < Len(lines) /\ isFileHeader(lines[i + 1])
          /\ MarkersAfter(i + 1) # {}
          /\ SetMin(MarkersAfter(i + 1)) < Len(lines))
        => i' = SetMin(MarkersAfter(i + 1))]_vars

\* a line that is a binary-file marker sentence
IsMarkerSentence(l) ==
    /\ startsWith(l, "Binary files ")
    /\ Len(l) >= Len("Binary files  differ")
    /\ Slice(l, Len(l) - Len(" differ") + 1, Len(l)) = " differ"

\* C24: a File is marked binary exactly when a marker sentence `Binary files
\* ... differ` is one of the at most two lines right after its `diff --git`
\* line; the text of the `diff --git` line itself, and lines further down,
\* never mark a File binary.
C24_BinaryIffMarkerFollows ==
    (pc = "done" /\ Len(results) = Cardinality(DiffLines)) =>
        \A n \in 1..Len(results) :
            results[n].isBinary <=>
                \E m \in {NthDiff(n) + 1, NthDiff(n) + 2} :
                    m <= SectionEnd(n) /\ IsMarkerSentence(lines[m])

\* ------------------------------------------------ the order of the line classes

\* the class of a line: the first of the prefixes, in their order, it has
ClassOf(l) ==
    CASE startsWith(l, "diff --git") -> "file-start"
      [] startsWith(l, "--- a/") -> "old-path"
      [] startsWith(l, "+++ b/") -> "new-path"
      [] startsWith(l, "@@") -> "hunk-header"
      [] OTHER -> "content"

\* the text of a path header after its prefix
PathOf(l) == Slice(l, Len("--- a/") + 1, Len(l))

\* C25: while a file is open, the line the scan is at is handled by its
\* class, the first that matches in the order file-start, old-path, new-path,
\* hunk header, content: a line that begins `--- a/` or `+++ b/` overwrites
\* the path and yields no Change, also when a hunk is open.
C25_FirstMatchWins ==
    [][(pc = "scan" /\ i < Len(lines) /\ currentFile # Null) =>
        LET l == lines[i + 1]
        IN  /\ ClassOf(l) = "file-start" =>
                /\ Len(results') = Len(results) + 1
                /\ currentChunk' = Null
            /\ ClassOf(l) = "old-path" =>
                /\ currentFile' = <<[currentFile[1] EXCEPT !.oldPath = PathOf(l)]>>
                /\ currentChunk' = currentChunk
                /\ results' = results
            /\ ClassOf(l) = "new-path" =>
                /\ currentFile'[1].newPath \in {PathOf(l), currentFile[1].oldPath}
                /\ currentFile'[1].chunks = currentFile[1].chunks
                /\ currentChunk' = currentChunk
                /\ results' = results
            /\ ClassOf(l) = "hunk-header" =>
                /\ currentFile'[1].oldPath = currentFile[1].oldPath
                /\ currentFile'[1].newPath = currentFile[1].newPath
                /\ currentChunk' # Null => currentChunk'[1].changes = <<>>
                /\ results' = results
            /\ ClassOf(l) = "content" =>
                /\ currentFile' = currentFile
                /\ results' = results
                /\ currentChunk # Null => currentChunk' # Null]_vars

\* a `--- a/` line inside an open hunk was taken as the old path: the hunk is
\* returned without a change
C25_Witness ==
    /\ pc = "done"
    /\ lines = <<"diff --git a/x b/y", "@@ -1,2 +3 @@", "--- a/x", "+a">>
    /\ results[1].oldPath = "x"
    /\ Len(results[1].chunks) = 1
    /\ Len(results[1].chunks[1].changes) = 1

\* ------------------------------------------------ AnalysisViewProvider
\* (src/src/utils/diffParser.ts 140-300)

\* the most analyzeFile and askQuestion calls of a session
MaxCalls == 3

\* the files the user can select: p and q are text files, b is binary
ViewPaths == {"p", "q", "b"}

IsBinaryPath(path) == path = "b"

\* a call that has not been made; calls are numbered in the order they start
NoCall == [op |-> "none", pc |-> "idle", path |-> "", arg |-> ""]

\* what the webview shows: the page, the file it names and the file whose
\* analysis it lists
Page(kind, path, analysis) == [kind |-> kind, path |-> path, analysis |-> analysis]

\* the page when no view is resolved yet
NoPage == Page("none", "", "")

\* this._getAnalysisHtml(): the initial page unless both _currentFileDiff and
\* _currentAnalysis are set (diffParser.ts 413-422)
getAnalysisHtml(fileDiff, analysis) ==
    IF fileDiff = <<>> \/ analysis = <<>> THEN Page("initial", "", "")
    ELSE Page("analysis", fileDiff[1].newPath, analysis[1])

\* if (this._view) this._view.webview.html = page
show(v, page) == IF v.resolved THEN page ELSE v.html

\* the provider after its constructor, no call made (diffParser.ts 142-151)
InitView ==
    /\ lines = <<"">>
    /\ hdr = PoolHeader
    /\ hunkBody = <<>>
    /\ Start
    /\ cmp = NotCalled /\ gfd = NotCalled /\ repo = NoRepo
    /\ second = NotCalled /\ server = NotCalled
    /\ explorer = NotCalled /\ ai = NotCalled
    /\ view = [resolved |-> FALSE, currentFileDiff |-> <<>>, currentAnalysis |-> <<>>,
               isLoading |-> FALSE, html |-> NoPage, posted |-> "none",
               calls |-> [c \in 1..MaxCalls |-> NoCall]]

viewFrame ==
    UNCHANGED <<lines, i, results, currentFile, currentChunk, pc, hdr, hunkBody,
                cmp, gfd, repo, second, server, explorer, ai>>

\* the calls that have started and not finished
InFlight(v) == {c \in 1..MaxCalls : v.calls[c].pc \notin {"idle", "done"}}

\* the next call to start
NextCall(v) == {c \in 1..MaxCalls :
                   /\ v.calls[c].pc = "idle"
                   /\ \A d \in 1..(c - 1) : v.calls[d].pc # "idle"}

\* resolveWebviewView (diffParser.ts 253-268)
ResolveView ==
    /\ ~view.resolved
    /\ view' = [view EXCEPT !.resolved = TRUE, !.html = Page("initial", "", "")]
    /\ viewFrame

\* analyzeFile up to its first await (diffParser.ts 156-174)
AnalyzeStart ==
    /\ \E c \in NextCall(view), path \in ViewPaths :
          view' = [view EXCEPT
                     !.isLoading = TRUE,
                     !.html = show(view, Page("loading", path, "")),
                     !.calls[c] = [op |-> "analyze", pc |-> "getFileDiff",
                                   path |-> path, arg |-> ""]]
    /\ viewFrame

\* getFileDiff settles: the binary return, the call of analyzeFileDiff, or
\* the catch, each with the finally (diffParser.ts 170-203)
AnalyzeGotDiff ==
    /\ \E c \in InFlight(view), ok \in BOOLEAN :
          /\ view.calls[c].pc = "getFileDiff"
          /\ LET path == view.calls[c].path
                 fileDiff == [newPath |-> path, isBinary |-> IsBinaryPath(path)]
             IN  IF ~ok
                 THEN view' = [view EXCEPT
                                 !.html = show(view, Page("error", "", "")),
                                 !.isLoading = FALSE,
                                 !.calls[c].pc = "done",
                                 !.calls[c].arg = "failed"]
                 ELSE IF fileDiff.isBinary
                 THEN view' = [view EXCEPT
                                 !.currentFileDiff = <<fileDiff>>,
                                 !.html = show(view, Page("binary", path, "")),
                                 !.isLoading = FALSE,
                                 !.calls[c].pc = "done"]
                 ELSE view' = [view EXCEPT
                                 !.currentFileDiff = <<fileDiff>>,
                                 !.calls[c].pc = "analyzeFileDiff",
                                 !.calls[c].arg = path]
    /\ viewFrame

\* analyzeFileDiff settles: _currentAnalysis, the page, and the finally
\* (diffParser.ts 186-203)
AnalyzeGotAnalysis ==
    /\ \E c \in InFlight(view) :
          /\ view.calls[c].pc = "analyzeFileDiff"
          /\ view' = [view EXCEPT
                        !.currentAnalysis = <<view.calls[c].arg>>,
                        !.html = show(view, getAnalysisHtml(view.currentFileDiff,
                                                            <<view.calls[c].arg>>)),
                        !.isLoading = FALSE,
                        !.calls[c].pc = "done"]
    /\ viewFrame

\* the guard of askQuestion: if (!this._currentFileDiff || this._isLoading)
\* return (diffParser.ts 209-211)
mayAsk(v) == v.currentFileDiff # <<>> /\ ~v.isLoading

\* askQuestion up to its await of the AI service, or its early return
\* (diffParser.ts 208-225)
AskStart ==
    /\ \E c \in NextCall(view) :
          IF ~mayAsk(view)
          THEN view' = [view EXCEPT
                          !.calls[c] = [op |-> "ask", pc |-> "done", path |-> "",
                                        arg |-> "returned"]]
          ELSE view' = [view EXCEPT
                          !.isLoading = TRUE,
                          !.posted = IF view.resolved THEN "processingQuestion" ELSE @,
                          !.calls[c] = [op |-> "ask", pc |-> "askQuestion",
                                        path |-> "",
                                        arg |-> view.currentFileDiff[1].newPath]]
    /\ viewFrame

\* the AI service settles the question: the answer or the error is posted,
\* and the finally (diffParser.ts 225-248)
AskGotAnswer ==
    /\ \E c \in InFlight(view), ok \in BOOLEAN :
          /\ view.calls[c].pc = "askQuestion"
          /\ view' = [view EXCEPT
                        !.posted = IF ~view.resolved THEN @
                                   ELSE IF ok THEN "questionAnswer" ELSE "questionError",
                        !.isLoading = FALSE,
                        !.calls[c].pc = "done"]
    /\ viewFrame

NextView ==
    \/ ResolveView \/ AnalyzeStart \/ AnalyzeGotDiff \/ AnalyzeGotAnalysis
    \/ AskStart \/ AskGotAnswer

SpecView == InitView /\ [][NextView]_vars

\* C26: under every interleaving of askQuestion and analyzeFile calls, a
\* question is with the AI service only if no analyzeFile and no askQuestion
\* that started before it is unfinished; so at most one question is in
\* flight at a time.
C26_OneQuestionInFlight ==
    \A c \in InFlight(view) :
        view.calls[c].op = "ask" =>
            \A d \in InFlight(view) : d >= c

\* the analyzeFile call that started last
LastAnalyze ==
    SetMax({c \in 1..MaxCalls : view.calls[c].op = "analyze"})

\* C30: when overlapping analyzeFile calls have all completed, in whatever
\* order their awaits settled, _currentFileDiff and the analysis displayed
\* are those of the file of the analyzeFile call that started last.
C30_LastStartedWins ==
    (/\ InFlight(view) = {}
     /\ view.resolved
     /\ \E c \in 1..MaxCalls : view.calls[c].op = "analyze"
     /\ \A c \in 1..MaxCalls : view.calls[c].arg # "failed") =>
        /\ view.currentFileDiff # <<>>
        /\ view.currentFileDiff[1].newPath = view.calls[LastAnalyze].path
        /\ view.html.kind \in {"analysis", "binary"} =>
              view.html.path = view.calls[LastAnalyze].path
        /\ view.html.kind = "analysis" =>
              view.html.analysis = view.calls[LastAnalyze].path

\* ------------------------------------------------ PythonService
\* (src/src/services/gitService.ts 496-664)

\* the most top-level startServer calls of a session
MaxStarts == 2

\* the most processes the service spawns in a session
MaxProcs == 4

\* private readonly maxStartupAttempts: number = 3
maxStartupAttempts == 3

\* const maxRetries = 10, the health probes of one waitForServerReady
maxRetries == 10

\* serverProcess: ChildProcess | null = null
NoProcess == 0

\* a top-level startServer call not yet made: attempts counts the passes
\* through the try block made during the call, probes the health probes of
\* the pass under way
NoStart == [pc |-> "idle", attempts |-> 0, probes |-> 0]

\* the service after its field initialisers (gitService.ts 497-500); no
\* process exists
InitServer ==
    /\ lines = <<"">>
    /\ hdr = PoolHeader
    /\ hunkBody = <<>>
    /\ Start
    /\ cmp = NotCalled /\ gfd = NotCalled /\ repo = NoRepo
    /\ second = NotCalled /\ view = NotCalled
    /\ explorer = NotCalled /\ ai = NotCalled
    /\ server = [serverProcess |-> NoProcess, startupAttempts |-> 0,
                 procs |-> [p \in 1..MaxProcs |-> "none"],
                 calls |-> [c \in 1..MaxStarts |-> NoStart]]

serverFrame ==
    UNCHANGED <<lines, i, results, currentFile, currentChunk, pc, hdr, hunkBody,
                cmp, gfd, repo, second, view, explorer, ai>>

Alive(sv) == {p \in 1..MaxProcs : sv.procs[p] = "alive"}

Spawned(sv) == {p \in 1..MaxProcs : sv.procs[p] # "none"}

\* the catch block of startServer: count the failure, then stopServer (which
\* returns at once when serverProcess is null) and the retry, or the throw
\* (gitService.ts 529-540, 639-641)
catchBlock(sv, c) ==
    LET counted == [sv EXCEPT !.startupAttempts = @ + 1]
    IN  IF counted.startupAttempts < maxStartupAttempts
        THEN [counted EXCEPT !.calls[c].pc =
                 IF sv.serverProcess = NoProcess THEN "retry" ELSE "shutdown"]
        ELSE [counted EXCEPT !.calls[c].pc = "rejected"]

\* startServer is entered, by a caller or by the retry: it returns when
\* serverProcess is set, else begins createPythonFiles (gitService.ts 505-514)
StartEnter ==
    /\ \E c \in 1..MaxStarts :
          /\ server.calls[c].pc \in {"idle", "retry"}
          /\ IF server.serverProcess # NoProcess
             THEN server' = [server EXCEPT !.calls[c].pc = "resolved"]
             ELSE server' = [server EXCEPT !.calls[c].pc = "createPythonFiles",
                                           !.calls[c].attempts = @ + 1,
                                           !.calls[c].probes = 0]
    /\ serverFrame

\* createPythonFiles settles; spawnServer runs up to its await of
\* getPythonPath (gitService.ts 514, 546-571, 578-585)
CreatedFiles ==
    /\ \E c \in 1..MaxStarts, ok \in BOOLEAN :
          /\ server.calls[c].pc = "createPythonFiles"
          /\ server' = IF ok THEN [server EXCEPT !.calls[c].pc = "getPythonPath"]
                       ELSE catchBlock(server, c)
    /\ serverFrame

\* this.serverProcess = spawn(...), and the first health probe is sent
\* (gitService.ts 587-610, 518, 619-621)
SpawnProcess ==
    /\ \E c \in 1..MaxStarts :
          /\ server.calls[c].pc = "getPythonPath"
          /\ Cardinality(Spawned(server)) < MaxProcs
          /\ LET p == Cardinality(Spawned(server)) + 1
             IN  server' = [server EXCEPT !.serverProcess = p,
                                          !.procs[p] = "alive",
                                          !.calls[c].pc = "waitForServerReady"]
    /\ serverFrame

\* a health probe settles: ready (the counter is reset and the call returns),
\* or not ready, which after maxRetries probes throws (gitService.ts 615-633,
\* 520-528)
HealthProbe ==
    /\ \E c \in 1..MaxStarts, ok \in BOOLEAN :
          /\ server.calls[c].pc = "waitForServerReady"
          /\ ok => Alive(server) # {}
          /\ server' =
               IF ok
               THEN [server EXCEPT !.startupAttempts = 0,
                                   !.calls[c].pc = "resolved"]
               ELSE IF server.calls[c].probes + 1 < maxRetries
               THEN [server EXCEPT !.calls[c].probes = @ + 1]
               ELSE catchBlock([server EXCEPT !.calls[c].probes = @ + 1], c)
    /\ serverFrame

\* stopServer: the shutdown request settles and the one second wait begins
\* (gitService.ts 645-648)
StopShutdown ==
    /\ \E c \in 1..MaxStarts :
          /\ server.calls[c].pc = "shutdown"
          /\ server' = [server EXCEPT !.calls[c].pc = "kill"]
    /\ serverFrame

\* stopServer after the wait: kill the process serverProcess names, if any,
\* and clear the handle (gitService.ts 650-654)
StopKill ==
    /\ \E c \in 1..MaxStarts :
          /\ server.calls[c].pc = "kill"
          /\ server' =
               IF server.serverProcess = NoProcess
               THEN [server EXCEPT !.calls[c].pc = "retry"]
               ELSE [server EXCEPT
                       !.procs[server.serverProcess] =
                           IF @ = "alive" THEN "ended" ELSE @,
                       !.serverProcess = NoProcess,
                       !.calls[c].pc = "retry"]
    /\ serverFrame

\* a process ends by itself: it fails to start, cannot bind the port, or
\* obeys the shutdown request
ProcessEnds ==
    /\ \E p \in Alive(server) : server' = [server EXCEPT !.procs[p] = "ended"]
    /\ serverFrame

\* the `close` event of an ended process is delivered: its handler clears
\* serverProcess (gitService.ts 606-609)
ProcessClose ==
    /\ \E p \in 1..MaxProcs :
          /\ server.procs[p] = "ended"
          /\ server' = [server EXCEPT !.procs[p] = "closed",
                                      !.serverProcess = NoProcess]
    /\ serverFrame

NextServer ==
    \/ StartEnter \/ CreatedFiles \/ SpawnProcess \/ HealthProbe
    \/ StopShutdown \/ StopKill \/ ProcessEnds \/ ProcessClose

SpecServer == InitServer /\ [][NextServer]_vars

\* C27: under every interleaving of startServer calls at most one process
\* that the service spawned is alive at a time.
C27_OneProcessAlive == Cardinality(Alive(server)) <= 1

\* C28: the handle of a live process is cleared only by stopping that
\* process: the close event of an earlier process, delivered after a retry
\* has spawned a new one, leaves serverProcess naming the new process.
C28_StaleCloseKeepsHandle ==
    [][(/\ server.serverProcess # NoProcess
        /\ server.procs[server.serverProcess] = "alive"
        /\ server'.serverProcess = NoProcess)
       => server'.procs[server.serverProcess] # "alive"]_vars

\* C29: a top-level startServer call rejects only after maxStartupAttempts
\* attempts made during that call, whatever an earlier call left in the
\* counter, and no call makes more than maxStartupAttempts attempts of
\* maxRetries probes.
C29_ThreeAttemptsEachCall ==
    \A c \in 1..MaxStarts :
        /\ server.calls[c].pc = "rejected" =>
              server.calls[c].attempts = maxStartupAttempts
        /\ server.calls[c].attempts <= maxStartupAttempts
        /\ server.calls[c].probes <= maxRetries

\* ------------------------------------------------- DiffViewProvider
\* src/providers/diffViewProvider.ts: the explorer view keeps the two refs of
\* the last loadDiffView call and the file list of the last compareRefs call
\* that resolved.

\* the loadDiffView calls one behaviour makes
MaxLoads == 3

\* the names of the refs the user can pick
RefNames == {"main", "dev"}

\* what `git diff --name-status base compare` prints in a repository where
\* dev adds the file x to main
gitNameStatusOfRefs(base, compare) ==
    IF base = compare THEN ""
    ELSE IF base = "main" THEN "A\tx\n" ELSE "D\tx\n"

\* what `git diff --numstat base compare` prints in that repository
gitNumstatOfRefs(base, compare) ==
    IF base = compare THEN ""
    ELSE IF base = "main" THEN "1\t0\tx\n" ELSE "0\t1\tx\n"

\* the list GitService.compareRefs resolves with for two refs
compareRefsOf(base, compare) ==
    compareRefs(gitNameStatusOfRefs(base, compare), gitNumstatOfRefs(base, compare))

NoLoad == [pc |-> "idle", by |-> "none", baseRef |-> Undefined, compareRef |-> Undefined]

\* _getInitialHtml, _getHtmlForWebview and _getErrorHtml, by what they read
getInitialHtml == [kind |-> "initial"]
getHtmlForWebview(ex) ==
    [kind |-> "files", baseRef |-> ex.baseRef, compareRef |-> ex.compareRef,
     files |-> ex.files]
getErrorHtml == [kind |-> "error"]

InitExplorer ==
    /\ lines = <<>>
    /\ hdr = PoolHeader
    /\ hunkBody = <<>>
    /\ Start
    /\ cmp = NotCalled /\ gfd = NotCalled /\ repo = NoRepo
    /\ second = NotCalled /\ view = NotCalled /\ server = NotCalled
    /\ ai = NotCalled
    /\ explorer = [pc |-> "live", webview |-> FALSE, html |-> [kind |-> "none"],
                   files |-> <<>>, baseRef |-> Undefined, compareRef |-> Undefined,
                   calls |-> [k \in 1..MaxLoads |-> NoLoad]]

explorerFrame ==
    UNCHANGED <<lines, i, results, currentFile, currentChunk, pc, hdr, hunkBody,
                cmp, gfd, repo, second, view, server, ai>>

HasRefs(ex) == ex.baseRef # Undefined /\ ex.compareRef # Undefined

FreeLoads(ex) == {k \in 1..MaxLoads : ex.calls[k].pc = "idle"}

\* loadDiffView up to its await: the refs are stored, compareRefs is called;
\* `caller` records who made the call
loadDiffView(ex, base, compare, caller) ==
    [ex EXCEPT !.baseRef = base, !.compareRef = compare,
               !.calls[SetMin(FreeLoads(ex))] =
                    [pc |-> "await", by |-> caller, baseRef |-> base,
                     compareRef |-> compare]]

\* the compare command calls loadDiffView with the refs the user picked
LoadCommand ==
    /\ explorer.pc = "live"
    /\ FreeLoads(explorer) # {}
    /\ \E base \in RefNames, compare \in RefNames :
          explorer' = loadDiffView(explorer, base, compare, "command")
    /\ explorerFrame

\* the webview posts `refresh`: loadDiffView with the stored refs
Refresh ==
    /\ explorer.pc = "live"
    /\ explorer.webview
    /\ HasRefs(explorer)
    /\ FreeLoads(explorer) # {}
    /\ explorer' = loadDiffView(explorer, explorer.baseRef, explorer.compareRef,
                              "refresh")
    /\ explorerFrame

\* resolveWebviewView: the view is kept, shows the initial page, and a
\* loadDiffView is started (not awaited) when refs are stored
ResolveWebview ==
    /\ explorer.pc = "live"
    /\ ~explorer.webview
    /\ HasRefs(explorer) => FreeLoads(explorer) # {}
    /\ LET shown == [explorer EXCEPT !.webview = TRUE, !.html = getInitialHtml]
       IN  explorer' = IF HasRefs(explorer)
                       THEN loadDiffView(shown, explorer.baseRef, explorer.compareRef,
                                         "resolve")
                       ELSE shown
    /\ explorerFrame

\* the rest of loadDiffView's try block once compareRefs has resolved
afterCompare(ex, k) ==
    LET got == [ex EXCEPT !.files = compareRefsOf(ex.calls[k].baseRef,
                                                  ex.calls[k].compareRef),
                          !.calls[k].pc = "done"]
    IN  IF ex.webview THEN [got EXCEPT !.html = getHtmlForWebview(got)] ELSE got

CompareResolves ==
    /\ explorer.pc = "live"
    /\ \E k \in 1..MaxLoads :
          /\ explorer.calls[k].pc = "await"
          /\ explorer' = afterCompare(explorer, k)
    /\ explorerFrame

\* loadDiffView's catch block once compareRefs has rejected
CompareRejects ==
    /\ explorer.pc = "live"
    /\ \E k \in 1..MaxLoads :
          /\ explorer.calls[k].pc = "await"
          /\ explorer' =
                [explorer EXCEPT !.calls[k].pc = "failed",
                                 !.html = IF explorer.webview THEN getErrorHtml
                                          ELSE explorer.html]
    /\ explorerFrame

NextExplorer ==
    \/ LoadCommand \/ Refresh \/ ResolveWebview
    \/ CompareResolves \/ CompareRejects

SpecExplorer == InitExplorer /\ [][NextExplorer]_vars

\* C31: once every loadDiffView call that was started has completed, and
\* none of them failed, _files is the comparison result of the stored
\* (_baseRef, _compareRef) pair.
C31_FilesOfStoredRefs ==
    (/\ explorer.pc = "live"
     /\ \E k \in 1..MaxLoads : explorer.calls[k].pc = "done"
     /\ \A k \in 1..MaxLoads : explorer.calls[k].pc \in {"idle", "done"})
    => explorer.files = compareRefsOf(explorer.baseRef, explorer.compareRef)

\* ------------------------------------------------------- AIService
\* src/services/aiService.ts: the service starts the Python server from its
\* constructor and again from a call that finds it not ready, and posts the
\* diff to the server over HTTP.

\* the analyzeFileDiff / askQuestion calls one behaviour makes
MaxAiCalls == 2

NotAvailable == "AI analysis server is not available"
Sorry == "Sorry, I was unable to analyze this code change. Please try again later."

NoAiCall == [pc |-> "idle", op |-> "none", result |-> Undefined, posted |-> FALSE]

\* how pythonService.startServer() can settle: it rejects when the server
\* cannot be started
StartOutcomes(a) == IF a.startable THEN {"resolved", "rejected"} ELSE {"rejected"}

\* how axios.post can settle: the connection is refused while no server runs
PostOutcomes(a) == IF a.up THEN {"200", "500", "refused"} ELSE {"refused"}

\* the constructor has run: isServerReady is false and the initPythonServer
\* call it made is awaiting startServer
InitAi ==
    /\ lines = <<>>
    /\ hdr = PoolHeader
    /\ hunkBody = <<>>
    /\ Start
    /\ cmp = NotCalled /\ gfd = NotCalled /\ repo = NoRepo
    /\ second = NotCalled /\ view = NotCalled /\ server = NotCalled
    /\ explorer = NotCalled
    /\ \E startable \in BOOLEAN :
          ai = [pc |-> "live", startable |-> startable, up |-> FALSE,
                isServerReady |-> FALSE, ctor |-> "init", errorsShown |-> 0,
                http |-> <<>>, calls |-> [c \in 1..MaxAiCalls |-> NoAiCall]]

aiFrame ==
    UNCHANGED <<lines, i, results, currentFile, currentChunk, pc, hdr, hunkBody,
                cmp, gfd, repo, second, view, server, explorer>>

\* initPythonServer once startServer has settled: the readiness flag is set
\* on success, the failure is logged and shown, and in both cases the
\* promise of initPythonServer resolves
initPythonServer(a, outcome) ==
    IF outcome = "resolved"
    THEN [state |-> [a EXCEPT !.isServerReady = TRUE, !.up = TRUE],
          settled |-> "resolved"]
    ELSE [state |-> [a EXCEPT !.errorsShown = @ + 1], settled |-> "resolved"]

\* the request of a call: /analyze for analyzeFileDiff, /ask for askQuestion
urlOf(op) == IF op = "analyze" THEN "/analyze" ELSE "/ask"

\* the second try block up to its await: axios.post sends the request
post(a, c) ==
    [a EXCEPT !.http = Append(@, urlOf(a.calls[c].op)),
              !.calls[c].pc = "post", !.calls[c].posted = TRUE]

\* the initPythonServer call of the constructor settles
CtorInitSettles ==
    /\ ai.pc = "live"
    /\ ai.ctor = "init"
    /\ \E outcome \in StartOutcomes(ai) :
          ai' = [initPythonServer(ai, outcome).state EXCEPT !.ctor = "done"]
    /\ aiFrame

FreeAiCalls(a) == {c \in 1..MaxAiCalls : a.calls[c].pc = "idle"}

\* analyzeFileDiff or askQuestion is called: a call that finds the server
\* not ready awaits initPythonServer, any other goes on to the request
AiCall ==
    /\ ai.pc = "live"
    /\ FreeAiCalls(ai) # {}
    /\ \E op \in {"analyze", "ask"} :
          LET c == SetMin(FreeAiCalls(ai))
              called == [ai EXCEPT !.calls[c].op = op]
          IN  ai' = IF ~ai.isServerReady
                    THEN [called EXCEPT !.calls[c].pc = "init"]
                    ELSE post(called, c)
    /\ aiFrame

\* the initPythonServer call of a method settles: the catch block throws
\* when it rejected, otherwise the method goes on to the request
AiInitSettles ==
    /\ ai.pc = "live"
    /\ \E c \in 1..MaxAiCalls, outcome \in StartOutcomes(ai) :
          /\ ai.calls[c].pc = "init"
          /\ LET r == initPythonServer(ai, outcome)
             IN  ai' = IF r.settled = "rejected"
                       THEN [r.state EXCEPT !.calls[c].pc = "threw",
                                            !.calls[c].result = NotAvailable]
                       ELSE post(r.state, c)
    /\ aiFrame

\* what a method returns from its catch block
fallbackOf(op) == IF op = "analyze" THEN "fallbackAnalysis" ELSE Sorry

\* what a method returns from a 200 response
dataOf(op) == IF op = "analyze" THEN "response.data" ELSE "response.data.answer"

\* the request of a call settles: the data of a 200 response is returned,
\* any other response and any failure ends in the catch block
AiPostSettles ==
    /\ ai.pc = "live"
    /\ \E c \in 1..MaxAiCalls, outcome \in PostOutcomes(ai) :
          /\ ai.calls[c].pc = "post"
          /\ ai' = [ai EXCEPT !.calls[c].pc = "returned",
                              !.calls[c].result =
                                  IF outcome = "200" THEN dataOf(ai.calls[c].op)
                                  ELSE fallbackOf(ai.calls[c].op)]
    /\ aiFrame

NextAi == CtorInitSettles \/ AiCall \/ AiInitSettles \/ AiPostSettles

SpecAi == InitAi /\ [][NextAi]_vars

\* C32: when the server is not ready and cannot be started, a finished
\* analyzeFileDiff or askQuestion call has failed with 'AI analysis server
\* is not available' and has sent no HTTP request.
C32_NotAvailableNoRequest ==
    (ai.pc = "live" /\ ~ai.startable) =>
        /\ ai.http = <<>>
        /\ \A c \in 1..MaxAiCalls :
              ai.calls[c].pc \in {"returned", "threw"} =>
                  /\ ai.calls[c].pc = "threw"
                  /\ ai.calls[c].result = NotAvailable

\* --------------------------------------------- a text without a file header

\* C33: a text with no line beginning `diff --git` parses to the empty
\* sequence, whatever `--- a/`, `+++ b/`, `@@` or content lines it holds, and
\* at every point of the scan an open hunk implies an open file.
C33_NoHeaderNoFiles ==
    /\ (pc = "done" /\ DiffLines = {}) => results = <<>>
    /\ currentChunk # Null => currentFile # Null

\* a text of a path line, a hunk header and a content line, and no file
\* header, has been parsed
C33_Witness ==
    /\ pc = "done"
    /\ DiffLines = {}
    /\ results = <<>>
    /\ \E k \in 1..Len(lines) :
          startsWith(lines[k], "--- a/") \/ startsWith(lines[k], "+++ b/")
    /\ \E k \in 1..Len(lines) : startsWith(lines[k], "@@")
    /\ \E k \in 1..Len(lines) : startsWith(lines[k], "+")

\* ------------------------------------- path headers after a binary marker

\* the lines after the marker's window that one text holds
MaxAfter == 2

\* the two lines after a `diff --git` line: a binary marker as the parser's
\* pattern expects it, one as git writes it for an added file, or other lines
WindowPool ==
    {"Binary files a/x and b/y differ", "Binary files /dev/null and b/y differ",
     "index 1..2", ""}

\* the lines that can follow them
AfterPool ==
    {"--- a/x", "--- a//dev/null", "+++ b/y", "+++ b//dev/null", "@@ -1 +1 @@", "+a"}

\* parseGitDiff is called on one section: a `diff --git` line, the two lines
\* of the binary lookahead, and up to MaxAfter more lines
InitMarked ==
    /\ \E w1 \in WindowPool, w2 \in WindowPool,
          after \in UNION {[1..m -> AfterPool] : m \in 0..MaxAfter} :
            lines = <<DiffLineOf("x", "y"), w1, w2>> \o after
    /\ hdr = PoolHeader
    /\ hunkBody = <<>>
    /\ NoService
    /\ Start

SpecMarked == InitMarked /\ [][Next]_vars

\* C34: every File that parseGitDiff returns has status ADDED, MODIFIED or
\* DELETED, and one marked isBinary has status MODIFIED.
C34_StatusOfReturnedFiles ==
    pc = "done" =>
        \A k \in 1..Len(results) :
            /\ results[k].status \in {"added", "modified", "deleted"}
            /\ results[k].isBinary => results[k].status = "modified"

====
